---- MODULE Spec2Model ----
(***************************************************************************)
(* Model of the AI Teacher session orchestrator (App), the Response        *)
(* Generator hook (useAIResponse), the Handwriting Extractor hook          *)
(* (useOCRProcessor) and the Quiz Engine hook (useQuizGenerator).          *)
(*                                                                         *)
(* The repository holds two builds of the App component: src/src/App.tsx   *)
(* ("App") and src/unnamed/part_002 ("part_002").  The variable build      *)
(* says which one is running.                                              *)
(*                                                                         *)
(* An async handler runs synchronously up to its first await; every await  *)
(* is a point where other events interleave.  A handler invocation that is *)
(* suspended at an await is a record of the bag tasks: the invocations     *)
(* settle in any order, so the order they started in is not kept.          *)
(***************************************************************************)
EXTENDS Integers, Sequences, FiniteSets, Bags, TLC

\* ------------------------------------------------------------------ bounds
MaxHistory == 2     \* records the conversation history may hold
MaxTasks == 2       \* handler invocations suspended at an await
MaxOcrCalls == 2    \* processImage calls in progress
MaxWorkers == 2     \* OCR workers alive at once
MaxTextLen == 2     \* characters of a recognized text
MaxQuestions == 2   \* questions of a generated quiz
MaxQuizCalls == 2   \* generateQuiz calls in progress
MaxStarts == 2      \* startListening calls waiting for the permission request
MaxStreams == 3     \* camera streams asked for
MaxAiCalls == 2     \* processAIResponse calls at the model call

\* --------------------------------------------------------- program texts
VoicePlaceholder == "Speak to ask a question..."
CameraPlaceholder == "Enable camera to analyze images"
DefaultQuestion == "What do you see in this image?"
FailAsk == "Failed to get response. Please try again."
FailAnalyze == "Failed to analyze image. Please try again."
FailUpload == "Failed to process image. Please try again."
FailNotes == "Failed to analyze notes. Please try again."
FailDrawing == "Failed to analyze drawing. Please try again."
WhiteboardPrompt == "Analyze this drawing and provide feedback and explanations"
UploadPrompt == "Briefly describe what's in this image in 1-2 sentences."
NotesPrompt ==
  "This image contains notes or text. Please analyze in detail by: 1) Summarizing the main content, 2) Explaining any concepts present, 3) Providing educational context or corrections if needed."
UploadedPrefix == "Uploaded image: "
NoTextMsg == "No text was detected in the image. Please try a clearer image."
OcrFailedMsg == "Failed to process handwritten text. Please try again."
QuizFailedMsg == "Failed to generate quiz. Please try again."
PermissionMsg == "Please grant microphone permission to use voice input."
SpeakFailedMsg == "Failed to speak response"

\* ------------------------------------------------------------ input sets
Builds == {"App", "part_002"}
Modes == {"chat", "quiz", "whiteboard", "ocr"}
Speech == {"why"}                        \* texts a recognition event delivers
Files == {"f1"}                          \* images the user may upload
Outcomes == {"ok", "empty", "fail"}      \* how a model call ends
Chars == {" ", "\n", "a"}                \* characters of a recognized text
OcrTexts == UNION {[1..n -> Chars] : n \in 0..MaxTextLen}
Confidences == {427, 900}                \* data.confidence, in tenths of a percent
StageErrors == {"Error: worker failed", "not an Error"}  \* what a failed stage rejects with
Answers == {"A", "B"}                    \* option texts of quiz questions

VARIABLES
  build,                  \* which App component is running
  mode,                   \* App: mode
  isImageAnalysisEnabled, \* App: isImageAnalysisEnabled
  video,                  \* webcamRef.current?.video: "none", "loading", "ready"
  conversationHistory,    \* App: conversationHistory (timestamps left out)
  transcript,             \* useVoiceRecognition: transcript
  response,               \* App: response
  error,                  \* part_002: error (the App build has no such state)
  isLoading,              \* useAIResponse: isLoading
  isLocalLoading,         \* part_002: isLocalLoading
  showAnalyzeButton,      \* part_002: showAnalyzeButton
  uploadedImage,          \* part_002: uploadedImage ("" for null)
  tasks,                  \* handler invocations suspended at an await that can still settle
  threw,                  \* the step just taken ended a handler in an uncaught exception
  cycles,                 \* successful ask/analyzeVisual cycles since the history was
                          \* last empty and idle; -1 once anything else has happened
  image,                  \* what worker.recognize finds in the image file: {text, confidence}
  isProcessing,           \* useOCRProcessor: isProcessing
  progress,               \* useOCRProcessor: progress
  ocrError,               \* useOCRProcessor: error ("" for null)
  ocrCalls,               \* the stages at which processImage calls are suspended
  workers,                \* OCR workers created and not terminated
  ocrReturn,              \* what the processImage call that returned last returned
  currentQuiz,            \* useQuizGenerator: currentQuiz
  isGenerating,           \* useQuizGenerator: isGenerating
  quizError,              \* useQuizGenerator: error ("" for null)
  quizCalls,              \* generateQuiz calls suspended at the model call
  checked,                \* how the checkAnswer call made last ended
  recognition,            \* useVoiceRecognition: recognition is not null (the browser has SpeechRecognition)
  isListening,            \* useVoiceRecognition: isListening
  hasPermission,          \* useVoiceRecognition: hasPermission: "null", "true", "false"
  engine,                 \* the recognition session: "off", "on", "stopping"
  mountCheck,             \* the getUserMedia call of the mount effect has not settled
  starts,                 \* startListening calls suspended at requestPermission
  enableCamera,           \* useAIResponse: the enableCamera prop
  hookMounted,            \* the component using useAIResponse is mounted
  stream,                 \* useAIResponse: stream (0 for null, else the number of the stream)
  cleanupStream,          \* the stream the cleanup of the camera effect sees
  live,                   \* the streams acquired whose tracks have not been stopped
  acquiring,              \* getUserMedia({video}) calls that have not settled
  acquired,               \* number of streams acquired so far
  currentQuestionIndex,   \* QuizSection: currentQuestionIndex
  chosenAnswer,           \* QuizSection: selectedAnswer ("" for null)
  showExplanation,        \* QuizSection: showExplanation
  score,                  \* QuizSection: score
  quizCompleted,          \* QuizSection: quizCompleted
  completions,            \* onComplete calls since the quiz on screen was stored
  reported,               \* the score the last onComplete call was given (-1: none yet)
  answeredRight,          \* questions of the quiz on screen answered with their correct answer
  enableVoice,            \* useAIResponse: the enableVoice prop
  isSpeaking,             \* useAIResponse: isSpeaking
  playback,               \* the utterance voiceOutput: "idle", "queued", "playing"
  aiError,                \* useAIResponse: error ("" for null)
  aiCalls,                \* processAIResponse calls at the model call, each with the
                          \* isSpeaking its speakResponse closes over
  lastCall                \* how the processAIResponse call that ended last ended

vars == <<build, mode, isImageAnalysisEnabled, video, conversationHistory,
          transcript, response, error, isLoading, isLocalLoading,
          showAnalyzeButton, uploadedImage, tasks, threw, cycles,
          image, isProcessing, progress, ocrError, ocrCalls, workers, ocrReturn,
          currentQuiz, isGenerating, quizError, quizCalls, checked,
          recognition, isListening, hasPermission, engine, mountCheck, starts,
          enableCamera, hookMounted, stream, cleanupStream, live, acquiring, acquired,
          currentQuestionIndex, chosenAnswer, showExplanation, score, quizCompleted,
          completions, reported, answeredRight,
          enableVoice, isSpeaking, playback, aiError, aiCalls, lastCall>>

orchestratorVars == <<build, mode, isImageAnalysisEnabled, video, conversationHistory,
                      transcript, response, error, isLoading, isLocalLoading,
                      showAnalyzeButton, uploadedImage, tasks, threw, cycles>>
ocrVars == <<image, isProcessing, progress, ocrError, ocrCalls, workers, ocrReturn>>
quizVars == <<currentQuiz, isGenerating, quizError, quizCalls, checked>>
voiceVars == <<recognition, isListening, hasPermission, engine, mountCheck, starts>>
cameraVars == <<enableCamera, hookMounted, stream, cleanupStream, live, acquiring, acquired>>
sectionVars == <<currentQuestionIndex, chosenAnswer, showExplanation, score, quizCompleted,
                 completions, reported, answeredRight>>
speechVars == <<enableVoice, isSpeaking, playback, aiError, aiCalls, lastCall>>
hookVars == <<voiceVars, cameraVars, speechVars>>
extVars == <<hookVars, sectionVars>>

appState == <<conversationHistory, transcript, response, error>>
uploadState == <<isLocalLoading, showAnalyzeButton, uploadedImage>>

\* --------------------------------------------------------------- helpers

\* The text the model generates for a prompt about an image ("" for none).
GenText(prompt, img) == "A[" \o prompt \o img \o "]"

Record(type, text) == [type |-> type, text |-> text]

addToHistory_Prepends(h, type, text) == <<Record(type, text)>> \o h

\* addToHistory: the functional update appends to the latest history.
addToHistory(h, type, text) == Append(h, Record(type, text))

Task(h, pc, q, img) == [h |-> h, pc |-> pc, q |-> q, img |-> img]

\* The pending invocations with t among them, without t, and with t moved on
\* to the await pc.
Started(ts, t) == ts (+) SetToBag({t})
Settled(ts, t) == ts (-) SetToBag({t})
Resumed(ts, t, pc) == Started(Settled(ts, t), [t EXCEPT !.pc = pc])

RemoveAt(s, i) == [j \in 1..(Len(s) - 1) |-> IF j < i THEN s[j] ELSE s[j + 1]]

\* Room for one more invocation that may append n records: a slot in tasks,
\* and history left for it and for the one record that every suspended
\* invocation may still append.
Room(n) ==
  /\ BagCardinality(tasks) < MaxTasks
  /\ Len(conversationHistory) + BagCardinality(tasks) + n <= MaxHistory

WebcamMounted(m, cam) == m = "chat" /\ cam

\* The invocations of ts other than the one waiting for loadeddata.  The
\* handler is registered by assignment (imageInput.onloadeddata = resolve) on
\* the element of the moment: when the element goes away or another
\* invocation registers, the one that waited waits forever and is no longer
\* among the invocations that can settle.
Orphaned(ts) == [t \in {u \in BagToSet(ts) : u.pc # "waitVideo"} |-> ts[t]]
Waiting(ts) == \E t \in BagToSet(ts) : t.pc = "waitVideo"

\* The count of successful cycles after one more has succeeded (ok) or after
\* something else has happened.
Counted(ok) == IF ok /\ cycles >= 0 THEN cycles + 1 ELSE -1

\* data of worker.recognize, and the values processImage returns: null or
\* {text, confidence}.
Data(text, conf) == [text |-> text, confidence |-> conf]
NoData == Data(<<>>, 0)
OcrNull == [kind |-> "null", text |-> <<>>, confidence |-> 0]
OcrValue(text, conf) == [kind |-> "result", text |-> text, confidence |-> conf]

InitApp ==
  /\ mode = "chat"
  /\ isImageAnalysisEnabled = FALSE
  /\ video = "none"
  /\ conversationHistory = <<>>
  /\ transcript = ""
  /\ response = ""
  /\ error = ""
  /\ isLoading = FALSE
  /\ isLocalLoading = FALSE
  /\ showAnalyzeButton = FALSE
  /\ uploadedImage = ""
  /\ tasks = EmptyBag
  /\ threw = FALSE
  /\ cycles = 0

InitOcrHook ==
  /\ isProcessing = FALSE
  /\ progress = 0
  /\ ocrError = ""
  /\ ocrCalls = <<>>
  /\ workers = 0
  /\ ocrReturn = [kind |-> "nothing yet", text |-> <<>>, confidence |-> 0]

\* A quiz value: kind "null" is no quiz, "quiz" an object with a questions
\* array, "other" any other value JSON.parse may give.  Of a question only
\* correctAnswer is kept.
Quiz(kind, questions) == [kind |-> kind, questions |-> questions]
NoQuiz == Quiz("null", <<>>)
Question(correct) == [correctAnswer |-> correct]
Call(called, quiz, index, answer, result) ==
  [called |-> called, quiz |-> quiz, index |-> index, answer |-> answer, result |-> result]

InitQuizHook ==
  /\ currentQuiz = NoQuiz
  /\ isGenerating = FALSE
  /\ quizError = ""
  /\ quizCalls = 0
  /\ checked = Call(FALSE, NoQuiz, 0, "", "")

\* useVoiceRecognition after its mount effect, in a browser with (r) or
\* without SpeechRecognition: with it, the effect has asked for the microphone.
InitVoiceHook(r) ==
  /\ recognition = r
  /\ isListening = FALSE
  /\ hasPermission = "null"
  /\ engine = "off"
  /\ mountCheck = r
  /\ starts = 0

\* useAIResponse mounted with enableCamera false: the camera effect has run,
\* asked for nothing, and left a cleanup that sees the null stream.
InitCamera ==
  /\ enableCamera = FALSE
  /\ hookMounted = TRUE
  /\ stream = 0
  /\ cleanupStream = 0
  /\ live = {}
  /\ acquiring = 0
  /\ acquired = 0

InitSection ==
  /\ currentQuestionIndex = 0
  /\ chosenAnswer = ""
  /\ showExplanation = FALSE
  /\ score = 0
  /\ quizCompleted = FALSE
  /\ completions = 0
  /\ reported = 0 - 1
  /\ answeredRight = 0

\* How a processAIResponse call ended and what it did about speech.
Ended(result, spoke, whilePlaying) ==
  [result |-> result, spoke |-> spoke, whilePlaying |-> whilePlaying]

\* useAIResponse({enableVoice: v}) after the effect that sets up the utterance.
InitSpeech(v) ==
  /\ enableVoice = v
  /\ isSpeaking = FALSE
  /\ playback = "idle"
  /\ aiError = ""
  /\ aiCalls = EmptyBag
  /\ lastCall = Ended("none", FALSE, FALSE)

InitExt ==
  /\ InitVoiceHook(TRUE)
  /\ InitCamera
  /\ InitSection
  /\ InitSpeech(TRUE)

Init ==
  /\ build \in Builds
  /\ image = NoData
  /\ InitApp
  /\ InitOcrHook
  /\ InitQuizHook
  /\ InitExt

\* ------------------------------------------------------- App: operations

\* setMode(m): the mode selector.  Leaving chat unmounts the Webcam.
SetMode(m) ==
  /\ m # mode
  /\ mode' = m
  /\ video' = IF WebcamMounted(m, isImageAnalysisEnabled) THEN "loading" ELSE "none"
  /\ tasks' = Orphaned(tasks)
  /\ cycles' = IF Waiting(tasks) THEN -1 ELSE cycles
  /\ threw' = FALSE
  /\ UNCHANGED <<build, isImageAnalysisEnabled, appState, isLoading, uploadState>>
  /\ UNCHANGED <<ocrVars, quizVars, extVars>>

\* The camera toggle and the effect on [isImageAnalysisEnabled, selectedMode].
ToggleCamera ==
  /\ isImageAnalysisEnabled' = ~isImageAnalysisEnabled
  /\ response' = ""
  /\ transcript' = ""
  /\ video' = IF WebcamMounted(mode, ~isImageAnalysisEnabled) THEN "loading" ELSE "none"
  /\ tasks' = Orphaned(tasks)
  /\ cycles' = IF Waiting(tasks) THEN -1 ELSE cycles
  /\ threw' = FALSE
  /\ UNCHANGED <<build, mode, conversationHistory, error, isLoading, uploadState>>
  /\ UNCHANGED <<ocrVars, quizVars, extVars>>

\* recognition.onresult: the event's text replaces the transcript.
onresult(t) ==
  /\ transcript' = t
  /\ threw' = FALSE
  /\ UNCHANGED <<build, mode, isImageAnalysisEnabled, video, conversationHistory,
                 response, error, isLoading, uploadState, tasks, cycles>>
  /\ UNCHANGED <<ocrVars, quizVars, extVars>>

clearHistory_KeepsTranscript ==
  /\ conversationHistory' = <<>>
  /\ response' = ""
  /\ cycles' = IF tasks = EmptyBag THEN 0 ELSE -1
  /\ threw' = FALSE
  /\ UNCHANGED <<build, mode, isImageAnalysisEnabled, video, transcript, error, isLoading,
                 uploadState, tasks, ocrVars, quizVars, extVars>>

\* clearHistory: setConversationHistory([]), setResponse(''), resetTranscript().
clearHistory ==
  /\ conversationHistory' = <<>>
  /\ response' = ""
  /\ transcript' = ""
  /\ cycles' = IF tasks = EmptyBag THEN 0 ELSE -1
  /\ threw' = FALSE
  /\ UNCHANGED <<build, mode, isImageAnalysisEnabled, video, error, isLoading,
                 uploadState, tasks>>
  /\ UNCHANGED <<ocrVars, quizVars, extVars>>

\* if (!transcript): nothing was said.
NoTranscript_Never == FALSE
NoTranscript == transcript = ""

\* handleAskQuestion, up to the await of processAIResponse(transcript).
handleAskQuestion ==
  /\ IF NoTranscript
     THEN /\ response' = VoicePlaceholder
          /\ UNCHANGED <<conversationHistory, isLoading, tasks>>
     ELSE /\ Room(2)
          /\ conversationHistory' = addToHistory(conversationHistory, "question", transcript)
          /\ isLoading' = TRUE
          /\ tasks' = Started(tasks, Task("ask", "awaitModel", transcript, ""))
          /\ UNCHANGED response
  /\ threw' = FALSE
  /\ UNCHANGED <<build, mode, isImageAnalysisEnabled, video, transcript, error,
                 uploadState, cycles>>
  /\ UNCHANGED <<ocrVars, quizVars, extVars>>

\* if (!webcamRef.current?.video): no Webcam is mounted.
NoVideo_Never == FALSE
NoVideo == video = "none"

\* handleAnalyzeImage, up to the first await inside processAIResponse(question, video).
\* ctxOk: canvas.getContext('2d') gave a context.  Without one the call throws
\* before any await, so the whole handler runs in this step.
handleAnalyzeImage ==
  /\ IF NoVideo
     THEN /\ response' = CameraPlaceholder
          /\ UNCHANGED <<conversationHistory, isLoading, tasks, cycles>>
     ELSE /\ Room(2)
          /\ \E ctxOk \in BOOLEAN :
               LET question == IF transcript # "" THEN transcript ELSE DefaultQuestion IN
               /\ conversationHistory' = addToHistory(conversationHistory, "question", question)
               /\ IF ~ctxOk
                  THEN /\ isLoading' = FALSE
                       /\ response' = FailAnalyze
                       /\ cycles' = -1
                       /\ UNCHANGED tasks
                  ELSE /\ isLoading' = TRUE
                       /\ tasks' = IF video = "loading"
                                   THEN Started(Orphaned(tasks), Task("camera", "waitVideo", question, ""))
                                   ELSE Started(tasks, Task("camera", "awaitModel", question, ""))
                       /\ cycles' = IF video = "loading" /\ Waiting(tasks) THEN -1 ELSE cycles
                       /\ UNCHANGED response
  /\ threw' = FALSE
  /\ UNCHANGED <<build, mode, isImageAnalysisEnabled, video, transcript, error, uploadState>>
  /\ UNCHANGED <<ocrVars, quizVars, extVars>>

\* video.onloadeddata: the invocation waiting for the frame draws it and calls the model.
VideoLoaded ==
  /\ video = "loading"
  /\ video' = "ready"
  /\ tasks' = IF Waiting(tasks)
              THEN Resumed(tasks, CHOOSE t \in BagToSet(tasks) : t.pc = "waitVideo", "awaitModel")
              ELSE tasks
  /\ threw' = FALSE
  /\ UNCHANGED <<build, mode, isImageAnalysisEnabled, appState, isLoading, uploadState, cycles>>
  /\ UNCHANGED <<ocrVars, quizVars, extVars>>

\* handleFileUpload with a file chosen.
\* App: setError is not in scope (the hook's setError is not destructured), so
\* setError(null) throws a ReferenceError, and so does the setError of the catch
\* block: the handler ends there with an uncaught exception.
\* part_002: runs up to the await of fileToBase64(file).
handleFileUpload(f) ==
  /\ IF build = "App"
     THEN /\ response' = ""
          /\ threw' = TRUE
          /\ UNCHANGED <<error, uploadState, tasks>>
     ELSE /\ Room(1)
          /\ response' = ""
          /\ error' = ""
          /\ showAnalyzeButton' = FALSE
          /\ uploadedImage' = f
          /\ isLocalLoading' = TRUE
          /\ tasks' = Started(tasks, Task("upload", "toBase64", UploadPrompt, f))
          /\ threw' = FALSE
  /\ UNCHANGED <<build, mode, isImageAnalysisEnabled, video, conversationHistory,
                 transcript, isLoading, cycles>>
  /\ UNCHANGED <<ocrVars, quizVars, extVars>>

\* part_002 handleAnalyzeNotes, up to the await of fetch(uploadedImage).
handleAnalyzeNotes ==
  /\ build = "part_002"
  /\ IF uploadedImage = ""
     THEN UNCHANGED <<isLocalLoading, tasks>>
     ELSE /\ Room(1)
          /\ isLocalLoading' = TRUE
          /\ tasks' = Started(tasks, Task("notes", "fetch", NotesPrompt, uploadedImage))
  /\ threw' = FALSE
  /\ UNCHANGED <<build, mode, isImageAnalysisEnabled, video, appState, isLoading,
                 showAnalyzeButton, uploadedImage, cycles>>
  /\ UNCHANGED <<ocrVars, quizVars, extVars>>

\* fileToBase64 / fetch settle: on success the handler goes on to call
\* processAIResponse with the inline image, on failure to its catch and finally.
PayloadSettles(t, ok) ==
  /\ BagIn(t, tasks)
  /\ t.pc \in {"toBase64", "fetch"}
  /\ IF ok
     THEN /\ isLoading' = TRUE
          /\ tasks' = Resumed(tasks, t, "awaitModel")
          /\ UNCHANGED <<response, error, isLocalLoading, cycles>>
     ELSE /\ tasks' = Settled(tasks, t)
          /\ isLocalLoading' = FALSE
          /\ cycles' = -1
          /\ IF t.h = "upload"
             THEN response' = FailUpload /\ UNCHANGED error
             ELSE error' = FailNotes /\ UNCHANGED response
          /\ UNCHANGED isLoading
  /\ threw' = FALSE
  /\ UNCHANGED <<build, mode, isImageAnalysisEnabled, video, conversationHistory,
                 transcript, showAnalyzeButton, uploadedImage>>
  /\ UNCHANGED <<ocrVars, quizVars, extVars>>

\* handleWhiteboardSubmit(imageData), up to the await of processAIResponse.
handleWhiteboardSubmit ==
  /\ Room(1)
  /\ isLoading' = TRUE
  /\ tasks' = Started(tasks, Task("whiteboard", "awaitModel", WhiteboardPrompt, ""))
  /\ threw' = FALSE
  /\ UNCHANGED <<build, mode, isImageAnalysisEnabled, video, appState, uploadState, cycles>>
  /\ UNCHANGED <<ocrVars, quizVars, extVars>>

\* What the rest of a handler does once processAIResponse has returned or
\* thrown.  o = "ok": the model answered with a non-empty text; "empty": with
\* the empty text, so that result?.text is falsy; "fail": the call failed and
\* processAIResponse rethrew.

\* handleAskQuestion and handleAnalyzeImage after the await.
AfterAsk_FailureInHistory(t, o) ==
  LET text == IF o = "ok" THEN GenText(t.q, t.img)
              ELSE IF t.h = "ask" THEN FailAsk ELSE FailAnalyze IN
  /\ IF o # "empty"
     THEN /\ response' = text
          /\ conversationHistory' = addToHistory(conversationHistory, "answer", text)
          /\ transcript' = ""
     ELSE UNCHANGED <<response, conversationHistory, transcript>>
  /\ threw' = FALSE
  /\ UNCHANGED <<error, uploadState>>

AfterAsk(t, o) ==
  /\ IF o = "ok"
     THEN /\ response' = GenText(t.q, t.img)
          /\ conversationHistory' =
               addToHistory(conversationHistory, "answer", GenText(t.q, t.img))
          /\ transcript' = ""
     ELSE /\ response' = IF o = "empty" THEN response
                         ELSE IF t.h = "ask" THEN FailAsk ELSE FailAnalyze
          /\ UNCHANGED <<conversationHistory, transcript>>
  /\ threw' = FALSE
  /\ UNCHANGED <<error, uploadState>>

\* part_002 handleFileUpload after the await, with its finally block.
AfterUpload(t, o) ==
  /\ IF o = "ok"
     THEN /\ response' = GenText(t.q, t.img)
          /\ conversationHistory' =
               addToHistory(conversationHistory, "question", UploadedPrefix \o GenText(t.q, t.img))
          /\ showAnalyzeButton' = TRUE
     ELSE /\ response' = IF o = "empty" THEN response ELSE FailUpload
          /\ UNCHANGED <<conversationHistory, showAnalyzeButton>>
  /\ isLocalLoading' = FALSE
  /\ threw' = FALSE
  /\ UNCHANGED <<transcript, error, uploadedImage>>

\* part_002 handleAnalyzeNotes after the await, with its finally block.
AfterNotes(t, o) ==
  /\ IF o = "ok"
     THEN /\ response' = GenText(t.q, t.img)
          /\ conversationHistory' =
               addToHistory(conversationHistory, "answer", GenText(t.q, t.img))
          /\ UNCHANGED error
     ELSE /\ error' = IF o = "empty" THEN error ELSE FailNotes
          /\ UNCHANGED <<response, conversationHistory>>
  /\ isLocalLoading' = FALSE
  /\ threw' = FALSE
  /\ UNCHANGED <<transcript, showAnalyzeButton, uploadedImage>>

AfterWhiteboard_DropsStale(t, o) ==
  /\ IF o = "ok" /\ BagCardinality(tasks) = 1
     THEN /\ response' = GenText(t.q, t.img)
          /\ conversationHistory' =
               addToHistory(conversationHistory, "answer", GenText(t.q, t.img))
          /\ threw' = FALSE
          /\ UNCHANGED error
     ELSE /\ threw' = (o = "fail" /\ build = "App")
          /\ error' = IF o = "fail" /\ build = "part_002" THEN FailDrawing ELSE error
          /\ UNCHANGED <<response, conversationHistory>>
  /\ UNCHANGED <<transcript, uploadState>>

\* handleWhiteboardSubmit after the await.  In the App build the catch block's
\* setError is not in scope and throws a ReferenceError out of the handler.
AfterWhiteboard(t, o) ==
  /\ IF o = "ok"
     THEN /\ response' = GenText(t.q, t.img)
          /\ conversationHistory' =
               addToHistory(conversationHistory, "answer", GenText(t.q, t.img))
          /\ threw' = FALSE
          /\ UNCHANGED error
     ELSE /\ threw' = (o = "fail" /\ build = "App")
          /\ error' = IF o = "fail" /\ build = "part_002" THEN FailDrawing ELSE error
          /\ UNCHANGED <<response, conversationHistory>>
  /\ UNCHANGED <<transcript, uploadState>>

HandlerAfterModel(t, o) ==
  CASE t.h \in {"ask", "camera"} -> AfterAsk(t, o)
    [] t.h = "upload" -> AfterUpload(t, o)
    [] t.h = "notes" -> AfterNotes(t, o)
    [] t.h = "whiteboard" -> AfterWhiteboard(t, o)

\* The model call of invocation t settles: processAIResponse returns {text} or
\* rethrows, its finally clears isLoading, and the handler runs to its end.
ModelSettles(t, o) ==
  /\ BagIn(t, tasks)
  /\ t.pc = "awaitModel"
  /\ isLoading' = FALSE
  /\ HandlerAfterModel(t, o)
  /\ tasks' = Settled(tasks, t)
  /\ cycles' = Counted(o = "ok")
  /\ UNCHANGED <<build, mode, isImageAnalysisEnabled, video>>
  /\ UNCHANGED <<ocrVars, quizVars, extVars>>

\* ------------------------------------------------- App: rendered controls
BusyControls == isLoading \/ (build = "part_002" /\ isLocalLoading)
CameraToggleEnabled == mode = "chat"
AnalyzeEnabled == mode = "chat" /\ isImageAnalysisEnabled /\ ~BusyControls
AskEnabled == mode = "chat" /\ transcript # "" /\ ~BusyControls
ClearEnabled == mode \in {"chat", "ocr"}
UploadEnabled == mode = "ocr"
NotesEnabled == build = "part_002" /\ mode = "ocr" /\ showAnalyzeButton /\ ~isLoading /\ ~isLocalLoading
WhiteboardEnabled == mode = "whiteboard"

ClickToggleCamera == CameraToggleEnabled /\ ToggleCamera
ClickAnalyze == AnalyzeEnabled /\ handleAnalyzeImage
ClickAsk == AskEnabled /\ handleAskQuestion
ClickClear == ClearEnabled /\ clearHistory
ChooseFile(f) == UploadEnabled /\ handleFileUpload(f)
ClickAnalyzeNotes == NotesEnabled /\ handleAnalyzeNotes
ClickWhiteboardSubmit == WhiteboardEnabled /\ handleWhiteboardSubmit

\* What the environment does: the browser, the model service.
Environment ==
  \/ \E t \in Speech : onresult(t)
  \/ VideoLoaded
  \/ \E t \in BagToSet(tasks), ok \in BOOLEAN : PayloadSettles(t, ok)
  \/ \E t \in BagToSet(tasks), o \in Outcomes : ModelSettles(t, o)

\* The operations of the orchestrator, invoked in any state.
Next ==
  \/ \E m \in Modes : SetMode(m)
  \/ ToggleCamera
  \/ clearHistory
  \/ handleAskQuestion
  \/ handleAnalyzeImage
  \/ \E f \in Files : handleFileUpload(f)
  \/ handleAnalyzeNotes
  \/ handleWhiteboardSubmit
  \/ Environment

Spec == Init /\ [][Next]_vars

\* The operations invoked through the rendered controls only.
NextUI ==
  \/ \E m \in Modes : SetMode(m)
  \/ ClickToggleCamera
  \/ ClickClear
  \/ ClickAsk
  \/ ClickAnalyze
  \/ \E f \in Files : ChooseFile(f)
  \/ ClickAnalyzeNotes
  \/ ClickWhiteboardSubmit
  \/ Environment

SpecUI == Init /\ [][NextUI]_vars

\* What the services can be relied on to do: a payload conversion and a model
\* call that have been started settle, and the video of a mounted Webcam
\* loads.  Nothing is assumed about what the user does.
ServicesSettle ==
  /\ WF_vars(\E t \in BagToSet(tasks), ok \in BOOLEAN : PayloadSettles(t, ok))
  /\ WF_vars(\E t \in BagToSet(tasks), o \in Outcomes : ModelSettles(t, o))
  /\ WF_vars(VideoLoaded)

SpecUILive == SpecUI /\ ServicesSettle

\* The image-upload surface of the part_002 build, with two images to choose
\* from: the file input, the Analyze Notes button and the services.
Images == {"f1", "f2"}

NextUpload ==
  \/ \E m \in Modes : SetMode(m)
  \/ \E f \in Images : ChooseFile(f)
  \/ ClickAnalyzeNotes
  \/ \E t \in BagToSet(tasks), ok \in BOOLEAN : PayloadSettles(t, ok)
  \/ \E t \in BagToSet(tasks), o \in Outcomes : ModelSettles(t, o)

InitUpload == Init /\ build = "part_002"

SpecUpload == InitUpload /\ [][NextUpload]_vars

\* ------------------------------------------- useOCRProcessor: processImage

IsSpace(c) == c \in {" ", "\n"}

RECURSIVE TrimStart(_)
TrimStart(s) == IF s # <<>> /\ IsSpace(Head(s)) THEN TrimStart(Tail(s)) ELSE s

RECURSIVE TrimEnd(_)
TrimEnd(s) == IF s # <<>> /\ IsSpace(s[Len(s)]) THEN TrimEnd(SubSeq(s, 1, Len(s) - 1)) ELSE s

\* String.prototype.trim on a text given as its sequence of characters.
Trim(s) == TrimEnd(TrimStart(s))

OcrStages == <<"createWorker", "load", "loadLanguage", "initialize", "recognize", "terminate">>

\* worker.logger: the progress shown for the status a stage reports as it begins.
StageProgress(pc, old) ==
  CASE pc = "load" -> 25
    [] pc = "loadLanguage" -> 50
    [] pc = "initialize" -> 75
    [] pc = "recognize" -> 90
    [] OTHER -> old

NextStage(pc) == OcrStages[(CHOOSE k \in 1..Len(OcrStages) : OcrStages[k] = pc) + 1]


\* The catch block's message: err.message of an Error, the fixed text otherwise.
OcrMessage(err) == IF err = "not an Error" THEN OcrFailedMsg ELSE err

\* processImage(imageFile), up to the await of createWorker().
processImage ==
  /\ Len(ocrCalls) < MaxOcrCalls
  /\ workers < MaxWorkers
  /\ isProcessing' = TRUE
  /\ ocrError' = ""
  /\ progress' = 0
  /\ ocrCalls' = Append(ocrCalls, "createWorker")
  /\ UNCHANGED <<image, workers, ocrReturn, orchestratorVars, quizVars, extVars>>

\* createWorker, worker.load, worker.loadLanguage, worker.initialize or
\* worker.recognize resolves, and the next stage is awaited.
StageResolves(i) ==
  /\ i \in 1..Len(ocrCalls)
  /\ ocrCalls[i] # "terminate"
  /\ workers' = IF ocrCalls[i] = "createWorker" THEN workers + 1 ELSE workers
  /\ ocrCalls' = [ocrCalls EXCEPT ![i] = NextStage(ocrCalls[i])]
  /\ progress' = StageProgress(NextStage(ocrCalls[i]), progress)
  /\ UNCHANGED <<image, isProcessing, ocrError, ocrReturn, orchestratorVars, quizVars, extVars>>

\* Any awaited stage rejects with err: the catch block records the message and
\* returns null, the finally block clears isProcessing.  The worker, if one was
\* created, is not terminated on this path.
StageRejects(i, err) ==
  /\ i \in 1..Len(ocrCalls)
  /\ ocrError' = OcrMessage(err)
  /\ ocrReturn' = OcrNull
  /\ isProcessing' = FALSE
  /\ ocrCalls' = RemoveAt(ocrCalls, i)
  /\ UNCHANGED <<image, progress, workers, orchestratorVars, quizVars, extVars>>

OcrResult_NoBlankCheck(data) == OcrValue(Trim(data.text), data.confidence)

\* What processImage returns for the recognized data: null, by way of the
\* Error thrown into the catch block, when the trimmed text is empty.
OcrResult(data) ==
  IF Trim(data.text) = <<>>
  THEN OcrNull
  ELSE OcrValue(Trim(data.text), data.confidence)

\* worker.terminate resolves: the rest of processImage runs to its return.
TerminateResolves(i) ==
  /\ i \in 1..Len(ocrCalls)
  /\ ocrCalls[i] = "terminate"
  /\ workers' = workers - 1
  /\ progress' = 100
  /\ ocrReturn' = OcrResult(image)
  /\ ocrError' = IF OcrResult(image) = OcrNull THEN NoTextMsg ELSE ocrError
  /\ isProcessing' = FALSE
  /\ ocrCalls' = RemoveAt(ocrCalls, i)
  /\ UNCHANGED <<image, orchestratorVars, quizVars, extVars>>

NextOCR ==
  \/ \E f \in Files : handleFileUpload(f)
  \/ processImage
  \/ \E i \in 1..MaxOcrCalls : StageResolves(i)
  \/ \E i \in 1..MaxOcrCalls, err \in StageErrors : StageRejects(i, err)
  \/ \E i \in 1..MaxOcrCalls : TerminateResolves(i)

\* The handwriting surface of the App build, whose handleFileUpload is the
\* caller of processImage, and the hook called on its own, for every image
\* the engine may be given.
InitOCR ==
  /\ build = "App"
  /\ image \in {Data(text, conf) : text \in OcrTexts, conf \in Confidences}
  /\ InitApp
  /\ InitOcrHook
  /\ InitQuizHook
  /\ InitExt

SpecOCR == InitOCR /\ [][NextOCR]_vars

\* --------------------------------------------------------- useQuizGenerator

\* What a generateQuiz call can get back: the call fails ("fail"), the text has
\* no {...} in it ("noJson"), JSON.parse throws on it ("badJson"), or it
\* parses to a value.
QuizQuestions == UNION {[1..n -> {Question(a) : a \in Answers}] : n \in 0..MaxQuestions}
QuizOutputs ==
  {Quiz(k, <<>>) : k \in {"fail", "noJson", "badJson", "other"}}
    \cup {Quiz("quiz", qs) : qs \in QuizQuestions}

\* generateQuiz(topic, difficulty), up to the await of model.generateContent:
\* what it does to the hook.
GenerateCalled ==
  /\ quizCalls < MaxQuizCalls
  /\ isGenerating' = TRUE
  /\ quizError' = ""
  /\ quizCalls' = quizCalls + 1
  /\ UNCHANGED <<currentQuiz, checked, ocrVars, hookVars>>

\* generateQuiz called on the hook.
generateQuiz == GenerateCalled /\ UNCHANGED <<orchestratorVars, sectionVars>>

\* The model call of a generateQuiz call settles with out: what the rest of
\* generateQuiz does to the hook.
GenerateReturns(out) ==
  /\ quizCalls > 0
  /\ quizCalls' = quizCalls - 1
  /\ IF out.kind \in {"quiz", "other"}
     THEN currentQuiz' = out /\ UNCHANGED quizError
     ELSE quizError' = QuizFailedMsg /\ UNCHANGED currentQuiz
  /\ isGenerating' = FALSE
  /\ UNCHANGED <<checked, ocrVars, hookVars>>

\* The model call of a generateQuiz call made on the hook settles with out.
QuizSettles(out) == GenerateReturns(out) /\ UNCHANGED <<orchestratorVars, sectionVars>>

checkAnswer_FirstQuestion(quiz, questionIndex, selectedAnswer) ==
  IF quiz.kind = "null" THEN "false"
  ELSE IF quiz.kind # "quiz" \/ questionIndex \notin 0..(Len(quiz.questions) - 1)
       THEN "TypeError"
       ELSE IF quiz.questions[1].correctAnswer = selectedAnswer
            THEN "true" ELSE "false"

\* checkAnswer(questionIndex, selectedAnswer) on the stored quiz: "true",
\* "false", or "TypeError" when currentQuiz.questions[questionIndex] is
\* undefined and .correctAnswer is read from it.
checkAnswer(quiz, questionIndex, selectedAnswer) ==
  IF quiz.kind = "null" THEN "false"
  ELSE IF quiz.kind # "quiz" \/ questionIndex \notin 0..(Len(quiz.questions) - 1)
       THEN "TypeError"
       ELSE IF quiz.questions[questionIndex + 1].correctAnswer = selectedAnswer
            THEN "true" ELSE "false"

\* A call of checkAnswer(i, a).
CallCheckAnswer(i, a) ==
  /\ checked' = Call(TRUE, currentQuiz, i, a, checkAnswer(currentQuiz, i, a))
  /\ UNCHANGED <<currentQuiz, isGenerating, quizError, quizCalls, orchestratorVars, ocrVars, extVars>>

Indexes == (0 - 1)..MaxQuestions
Selected == Answers \cup {"C"}

NextQuiz ==
  \/ generateQuiz
  \/ \E out \in QuizOutputs : QuizSettles(out)
  \/ \E i \in Indexes, a \in Selected : CallCheckAnswer(i, a)

SpecQuiz == Init /\ [][NextQuiz]_vars

\* ------------------------------------------------------ useVoiceRecognition

Phrases == Speech \cup {"how"}    \* texts of the recognition events of a session
RecognitionErrors == {"not-allowed", "no-speech", "network"}   \* event.error

\* The getUserMedia call of the mount effect settles.
MountCheckSettles(granted) ==
  /\ mountCheck
  /\ mountCheck' = FALSE
  /\ hasPermission' = IF granted THEN "true" ELSE "false"
  /\ UNCHANGED <<recognition, isListening, engine, starts>>
  /\ UNCHANGED <<orchestratorVars, ocrVars, quizVars, cameraVars, sectionVars, speechVars>>

\* startListening from `if (recognition)` on: recognition.start() throws when
\* the session has already been started, and the catch clears isListening.
StartRecognition ==
  IF ~recognition
  THEN UNCHANGED <<isListening, engine>>
  ELSE IF engine = "off"
       THEN engine' = "on" /\ isListening' = TRUE
       ELSE isListening' = FALSE /\ UNCHANGED engine

NeedsPermission_Never == FALSE

\* startListening: if (!hasPermission)
NeedsPermission == hasPermission # "true"

\* startListening, up to the await of requestPermission() if there is one.
startListening ==
  /\ IF NeedsPermission
     THEN /\ starts < MaxStarts
          /\ starts' = starts + 1
          /\ UNCHANGED <<isListening, engine>>
     ELSE /\ StartRecognition
          /\ UNCHANGED starts
  /\ UNCHANGED <<recognition, hasPermission, mountCheck>>
  /\ UNCHANGED <<orchestratorVars, ocrVars, quizVars, cameraVars, sectionVars, speechVars>>

\* requestPermission settles for a suspended startListening, which goes on.
PermissionSettles(granted) ==
  /\ starts > 0
  /\ starts' = starts - 1
  /\ IF granted
     THEN /\ hasPermission' = "true"
          /\ StartRecognition
          /\ UNCHANGED transcript
     ELSE /\ hasPermission' = "false"
          /\ transcript' = PermissionMsg
          /\ UNCHANGED <<isListening, engine>>
  /\ UNCHANGED <<recognition, mountCheck>>
  /\ UNCHANGED <<build, mode, isImageAnalysisEnabled, video, conversationHistory, response,
                 error, isLoading, uploadState, tasks, threw, cycles>>
  /\ UNCHANGED <<ocrVars, quizVars, cameraVars, sectionVars, speechVars>>

stopListening_KeepsListening ==
  /\ engine' = IF recognition /\ engine = "on" THEN "stopping" ELSE engine
  /\ UNCHANGED <<recognition, isListening, hasPermission, mountCheck, starts>>
  /\ UNCHANGED <<orchestratorVars, ocrVars, quizVars, cameraVars, sectionVars, speechVars>>

\* stopListening: recognition.stop() lets the session deliver what it has and end.
stopListening ==
  /\ IF recognition
     THEN /\ engine' = IF engine = "on" THEN "stopping" ELSE engine
          /\ isListening' = FALSE
     ELSE UNCHANGED <<engine, isListening>>
  /\ UNCHANGED <<recognition, hasPermission, mountCheck, starts>>
  /\ UNCHANGED <<orchestratorVars, ocrVars, quizVars, cameraVars, sectionVars, speechVars>>

\* resetTranscript
resetTranscript ==
  /\ transcript' = ""
  /\ UNCHANGED <<build, mode, isImageAnalysisEnabled, video, conversationHistory, response,
                 error, isLoading, uploadState, tasks, threw, cycles>>
  /\ UNCHANGED <<ocrVars, quizVars, extVars>>

\* recognition.onresult during a session.
SessionResult(t) == engine # "off" /\ onresult(t)

PermissionFailure_Any(e) == TRUE

\* recognition.onerror: if (event.error === 'not-allowed')
PermissionFailure(e) == e = "not-allowed"

\* recognition.onerror, with which the session ends.
onerror(e) ==
  /\ engine # "off"
  /\ engine' = "off"
  /\ hasPermission' = IF PermissionFailure(e) THEN "false" ELSE hasPermission
  /\ isListening' = FALSE
  /\ UNCHANGED <<recognition, mountCheck, starts>>
  /\ UNCHANGED <<orchestratorVars, ocrVars, quizVars, cameraVars, sectionVars, speechVars>>

\* The session ends (the hook sets no onend handler).
SessionEnds ==
  /\ engine # "off"
  /\ engine' = "off"
  /\ UNCHANGED <<recognition, isListening, hasPermission, mountCheck, starts>>
  /\ UNCHANGED <<orchestratorVars, ocrVars, quizVars, cameraVars, sectionVars, speechVars>>

NextVoice ==
  \/ \E granted \in BOOLEAN : MountCheckSettles(granted)
  \/ startListening
  \/ \E granted \in BOOLEAN : PermissionSettles(granted)
  \/ stopListening
  \/ resetTranscript
  \/ \E t \in Phrases : SessionResult(t)
  \/ \E e \in RecognitionErrors : onerror(e)
  \/ SessionEnds

\* The hook in a browser with or without SpeechRecognition.
InitVoice ==
  /\ build \in Builds
  /\ image = NoData
  /\ InitApp
  /\ InitOcrHook
  /\ InitQuizHook
  /\ \E r \in BOOLEAN : InitVoiceHook(r)
  /\ InitCamera
  /\ InitSection
  /\ InitSpeech(TRUE)

SpecVoice == InitVoice /\ [][NextVoice]_vars

\* The hook together with the Ask button of the chat surface, which submits
\* the transcript.
NextDictation ==
  \/ NextVoice
  \/ ClickAsk
  \/ \E t \in BagToSet(tasks), o \in Outcomes : ModelSettles(t, o)

SpecDictation == InitVoice /\ [][NextDictation]_vars

\* -------------------------------------------- useAIResponse: camera effect

\* The cleanup of the camera effect: it stops the tracks of the stream it
\* sees, which is the stream state of the render its effect ran in.
Released(streams) == streams \ {cleanupStream}

\* The enableCamera prop changes: the cleanup of the previous effect runs, then
\* the effect of this render, which calls getUserMedia if the camera is enabled.
SetEnableCamera ==
  /\ hookMounted
  /\ enableCamera' = ~enableCamera
  /\ live' = Released(live)
  /\ IF ~enableCamera
     THEN /\ acquired + acquiring < MaxStreams
          /\ acquiring' = acquiring + 1
     ELSE UNCHANGED acquiring
  /\ cleanupStream' = stream
  /\ UNCHANGED <<hookMounted, stream, acquired>>
  /\ UNCHANGED <<orchestratorVars, ocrVars, quizVars, voiceVars, sectionVars, speechVars>>

\* getUserMedia resolves: setStream(mediaStream); no effect runs for it.
AcquireResolves ==
  /\ acquiring > 0
  /\ acquiring' = acquiring - 1
  /\ acquired' = acquired + 1
  /\ live' = live \cup {acquired + 1}
  /\ stream' = IF hookMounted THEN acquired + 1 ELSE stream
  /\ UNCHANGED <<enableCamera, hookMounted, cleanupStream>>
  /\ UNCHANGED <<orchestratorVars, ocrVars, quizVars, voiceVars, sectionVars, speechVars>>

\* getUserMedia rejects: the catch logs the error.
AcquireRejects ==
  /\ acquiring > 0
  /\ acquiring' = acquiring - 1
  /\ UNCHANGED <<enableCamera, hookMounted, stream, cleanupStream, live, acquired>>
  /\ UNCHANGED <<orchestratorVars, ocrVars, quizVars, voiceVars, sectionVars, speechVars>>

\* The component is torn down: the cleanup of the last effect runs.
Unmount ==
  /\ hookMounted
  /\ hookMounted' = FALSE
  /\ live' = Released(live)
  /\ UNCHANGED <<enableCamera, stream, cleanupStream, acquiring, acquired>>
  /\ UNCHANGED <<orchestratorVars, ocrVars, quizVars, voiceVars, sectionVars, speechVars>>

NextCamera ==
  \/ SetEnableCamera
  \/ AcquireResolves
  \/ AcquireRejects
  \/ Unmount

SpecCamera == Init /\ [][NextCamera]_vars

\* ------------------------------------------------------------- QuizSection

QuizCompletedPrefix == "Quiz completed! Score: "

\* What QuizSection renders.
Screen ==
  IF quizError # "" THEN "error"
  ELSE IF isGenerating THEN "generating"
  ELSE IF currentQuiz.kind = "null" THEN "start"
  ELSE IF quizCompleted THEN "completed"
  ELSE "question"

\* The question screen can be rendered: currentQuiz.questions[currentQuestionIndex]
\* is a question.  Otherwise rendering throws and no control is left.
QuestionShown ==
  /\ Screen = "question"
  /\ currentQuiz.kind = "quiz"
  /\ currentQuestionIndex < Len(currentQuiz.questions)

\* Start Quiz / Try Again: handleStartQuiz up to the await inside generateQuiz.
handleStartQuiz ==
  /\ Screen \in {"error", "start", "completed"}
  /\ Len(conversationHistory) < MaxHistory
  /\ GenerateCalled
  /\ UNCHANGED <<orchestratorVars, sectionVars>>

\* generateQuiz returns to handleStartQuiz, which resets the section.
StartQuizReturns(out) ==
  /\ GenerateReturns(out)
  /\ currentQuestionIndex' = 0
  /\ score' = 0
  /\ quizCompleted' = FALSE
  /\ IF out.kind \in {"quiz", "other"}
     THEN completions' = 0 /\ reported' = 0 - 1 /\ answeredRight' = 0
     ELSE UNCHANGED <<completions, reported, answeredRight>>
  /\ UNCHANGED <<chosenAnswer, showExplanation, orchestratorVars>>

Scored_Always(quiz, questionIndex, answer, old) == old + 1

\* handleAnswerSelect: if (isCorrect) setScore(prev => prev + 1)
Scored(quiz, questionIndex, answer, old) ==
  IF checkAnswer(quiz, questionIndex, answer) = "true" THEN old + 1 ELSE old

\* An option button of the question on screen.
handleAnswerSelect(answer) ==
  /\ QuestionShown
  /\ ~showExplanation
  /\ chosenAnswer' = answer
  /\ showExplanation' = TRUE
  /\ checked' = Call(TRUE, currentQuiz, currentQuestionIndex, answer,
                     checkAnswer(currentQuiz, currentQuestionIndex, answer))
  /\ score' = Scored(currentQuiz, currentQuestionIndex, answer, score)
  /\ answeredRight' =
       IF answer = currentQuiz.questions[currentQuestionIndex + 1].correctAnswer
       THEN answeredRight + 1 ELSE answeredRight
  /\ UNCHANGED <<currentQuestionIndex, quizCompleted, completions, reported>>
  /\ UNCHANGED <<currentQuiz, isGenerating, quizError, quizCalls>>
  /\ UNCHANGED <<orchestratorVars, ocrVars, hookVars>>

\* handleNextQuestion: the else of if (currentQuestionIndex < currentQuiz.questions.length - 1)
LastQuestion == ~(currentQuestionIndex < Len(currentQuiz.questions) - 1)

\* Next Question / Complete Quiz; onComplete is App's handleQuizComplete.
handleNextQuestion ==
  /\ QuestionShown
  /\ showExplanation
  /\ chosenAnswer' = ""
  /\ showExplanation' = FALSE
  /\ IF LastQuestion
     THEN /\ quizCompleted' = TRUE
          /\ completions' = completions + 1
          /\ reported' = score
          /\ conversationHistory' =
               addToHistory(conversationHistory, "answer", QuizCompletedPrefix \o ToString(score))
          /\ UNCHANGED currentQuestionIndex
     ELSE /\ currentQuestionIndex' = currentQuestionIndex + 1
          /\ UNCHANGED <<quizCompleted, completions, reported, conversationHistory>>
  /\ UNCHANGED <<score, answeredRight>>
  /\ UNCHANGED <<build, mode, isImageAnalysisEnabled, video, transcript, response, error,
                 isLoading, uploadState, tasks, threw, cycles>>
  /\ UNCHANGED <<quizVars, ocrVars, hookVars>>

NextSection ==
  \/ handleStartQuiz
  \/ \E out \in QuizOutputs : StartQuizReturns(out)
  \/ \E answer \in Answers : handleAnswerSelect(answer)
  \/ handleNextQuestion

SpecSection == Init /\ [][NextSection]_vars

\* ---------------------------------------------- useAIResponse: speech output

\* The frame of the speech actions.
SpeechFrame ==
  UNCHANGED <<build, mode, isImageAnalysisEnabled, video, conversationHistory, transcript,
              response, error, uploadState, tasks, threw, cycles,
              ocrVars, quizVars, voiceVars, cameraVars, sectionVars>>

\* processAIResponse(prompt) up to the model call.  The function, and the
\* speakResponse it calls, belong to the render the handler was started in.
processAIResponse ==
  /\ BagCardinality(aiCalls) < MaxAiCalls
  /\ isLoading' = TRUE
  /\ aiError' = ""
  /\ aiCalls' = aiCalls (+) SetToBag({[isSpeaking |-> isSpeaking]})
  /\ UNCHANGED <<enableVoice, isSpeaking, playback, lastCall>>
  /\ SpeechFrame

\* speakResponse: if (!voiceOutput || !enableVoice || isSpeaking) return, with
\* the isSpeaking of its render.
Speaks(call) == enableVoice /\ ~call.isSpeaking

\* The model call of call settles with o; on "ok" speakResponse(text) runs,
\* and speechSynthesis may throw in it (thrown); then the finally block.
ResponseSettles(call, o, thrown) ==
  /\ BagIn(call, aiCalls)
  /\ aiCalls' = aiCalls (-) SetToBag({call})
  /\ isLoading' = FALSE
  /\ IF o = "ok" /\ enableVoice /\ Speaks(call)
     THEN /\ IF thrown
             THEN aiError' = SpeakFailedMsg /\ UNCHANGED playback
             ELSE playback' = "queued" /\ UNCHANGED aiError
          /\ lastCall' = Ended("text", ~thrown, ~thrown /\ playback = "playing")
     ELSE /\ lastCall' = Ended(IF o = "fail" THEN "thrown" ELSE "text", FALSE, FALSE)
          /\ UNCHANGED <<playback, aiError>>
  /\ UNCHANGED <<enableVoice, isSpeaking>>
  /\ SpeechFrame

\* utterance.onstart
onstart ==
  /\ playback = "queued"
  /\ playback' = "playing"
  /\ isSpeaking' = TRUE
  /\ UNCHANGED <<enableVoice, aiError, aiCalls, lastCall, isLoading>>
  /\ SpeechFrame

\* utterance.onend
onend ==
  /\ playback = "playing"
  /\ playback' = "idle"
  /\ isSpeaking' = FALSE
  /\ UNCHANGED <<enableVoice, aiError, aiCalls, lastCall, isLoading>>
  /\ SpeechFrame

\* utterance.onerror
onSpeechError ==
  /\ playback # "idle"
  /\ playback' = "idle"
  /\ isSpeaking' = FALSE
  /\ aiError' = SpeakFailedMsg
  /\ UNCHANGED <<enableVoice, aiCalls, lastCall, isLoading>>
  /\ SpeechFrame

NextSpeech ==
  \/ processAIResponse
  \/ \E call \in BagToSet(aiCalls), o \in Outcomes, thrown \in BOOLEAN :
       ResponseSettles(call, o, thrown)
  \/ onstart
  \/ onend
  \/ onSpeechError

\* The hook with voice output enabled (as App uses it) or not.
InitSpeechHook ==
  /\ build \in Builds
  /\ image = NoData
  /\ InitApp
  /\ InitOcrHook
  /\ InitQuizHook
  /\ InitVoiceHook(TRUE)
  /\ InitCamera
  /\ InitSection
  /\ \E v \in BOOLEAN : InitSpeech(v)

SpecSpeech == InitSpeechHook /\ [][NextSpeech]_vars

\* ------------------------------------------------------------------ claims

\* A text with nothing but white space in it, the empty text included.
Blank(text) == \A k \in 1..Len(text) : text[k] \in {" ", "\n"}

\* C1: whenever handleAskQuestion is invoked with an empty transcript, it makes
\* no Response Generator call (no invocation is suspended, isLoading is not
\* set), appends nothing to the history and sets the response to the voice
\* placeholder 'Speak to ask a question...'.
C1_EmptyTranscriptAsk ==
  [][(handleAskQuestion /\ transcript = "")
       => /\ response' = "Speak to ask a question..."
          /\ tasks' = tasks
          /\ isLoading' = isLoading
          /\ conversationHistory' = conversationHistory]_vars

\* C1 witness: ask has been invoked with an empty transcript while a record
\* was in the history.
C1_Witness ==
  /\ response = VoicePlaceholder
  /\ transcript = ""
  /\ conversationHistory # <<>>

\* C2 (the claim as stated): from an empty history and with no reset, once N
\* cycles have succeeded and nothing else has happened, the history holds
\* exactly 2N records, a question followed by its answer for each cycle.
C2_HistoryIsTwoPerCycle ==
  (cycles >= 0 /\ tasks = EmptyBag)
    => /\ Len(conversationHistory) = 2 * cycles
       /\ \A k \in 1..cycles :
            /\ conversationHistory[2 * k - 1].type = "question"
            /\ conversationHistory[2 * k].type = "answer"

\* C3 (the claim as stated): in every reachable state at most one request
\* started from a control is pending.
C3_OneInFlight == BagCardinality(tasks) + Len(ocrCalls) <= 1

\* C4: from any prior state, the state right after clearHistory has an empty
\* history, an empty response and an empty transcript.
C4_ResetClearsAll ==
  [][clearHistory
       => /\ conversationHistory' = <<>>
          /\ response' = ""
          /\ transcript' = ""]_vars

\* C4 witness: the history, response and transcript are empty while an ask
\* request, which appended its question when it started, is still pending:
\* the reset happened with the request in flight.
C4_Witness ==
  /\ \E t \in BagToSet(tasks) : t.h = "ask"
  /\ conversationHistory = <<>>
  /\ response = ""
  /\ transcript = ""

C6_WorkerReleased == workers <= Len(ocrCalls)

\* C7: with a quiz loaded and an index within its questions, checkAnswer(i, a)
\* returns true exactly when a is the correct answer of question i, and the
\* call changes nothing of the hook's state.
C7_CheckAnswerIffCorrect ==
  /\ []((/\ checked.called
         /\ checked.quiz.kind = "quiz"
         /\ checked.index \in 0..(Len(checked.quiz.questions) - 1))
        => /\ checked.result \in {"true", "false"}
           /\ (checked.result = "true")
                <=> (checked.answer = checked.quiz.questions[checked.index + 1].correctAnswer))
  /\ [][checked' # checked
          => UNCHANGED <<currentQuiz, isGenerating, quizError, quizCalls>>]_vars

\* C7 witness: checkAnswer returned true for the second question of a quiz.
C7_Witness ==
  /\ checked.called
  /\ checked.quiz.kind = "quiz"
  /\ checked.index = 1
  /\ Len(checked.quiz.questions) = 2
  /\ checked.result = "true"

\* C8 (the claim as stated): checkAnswer returns false, and does not throw,
\* when no quiz is loaded or the index is outside the questions of the quiz.
C8_CheckAnswerNeverFails ==
  (/\ checked.called
   /\ \/ checked.quiz.kind = "null"
      \/ /\ checked.quiz.kind = "quiz"
         /\ checked.index \notin 0..(Len(checked.quiz.questions) - 1))
    => checked.result = "false"

\* C9: when the model call made by ask fails, the response becomes 'Failed to
\* get response. Please try again.', the history is left as it is, no
\* exception leaves the handler, and no record of the history ever holds a
\* failure text.
C9_AskFailure ==
  /\ [][\A t \in BagToSet(tasks) :
          (t.h = "ask" /\ ModelSettles(t, "fail"))
            => /\ response' = "Failed to get response. Please try again."
               /\ conversationHistory' = conversationHistory
               /\ ~threw']_vars
  /\ [](\A k \in 1..Len(conversationHistory) :
          conversationHistory[k].text \notin
            {FailAsk, FailAnalyze, FailUpload, FailNotes, FailDrawing})

\* C9 witness: the ask failed: its question is the last record, the failure
\* message is shown, nothing is pending.
C9_Witness ==
  /\ response = FailAsk
  /\ tasks = EmptyBag
  /\ conversationHistory # <<>>
  /\ conversationHistory[Len(conversationHistory)].type = "question"
  /\ ~threw

\* C10: when handleAnalyzeImage is invoked with no video element available,
\* it sets the response to the camera placeholder, makes no Response Generator
\* call and leaves the history and the transcript unchanged.
C10_NoCameraFrame ==
  [][(handleAnalyzeImage /\ video = "none")
       => /\ response' = "Enable camera to analyze images"
          /\ tasks' = tasks
          /\ isLoading' = isLoading
          /\ conversationHistory' = conversationHistory
          /\ transcript' = transcript]_vars

\* C10 witness: the camera placeholder is shown with no video element, a
\* transcript waiting and a record in the history.
C10_Witness ==
  /\ response = CameraPlaceholder
  /\ video = "none"
  /\ transcript # ""
  /\ conversationHistory # <<>>

\* C11 (the claim as stated, its first step): when the handwriting handler of
\* the App build is given an image, extraction is started for it, so that the
\* recognized text, the Question record, the generator call and the Answer
\* record can follow in that order.
C11_UploadStartsExtraction ==
  [][\A f \in Files :
       (build = "App" /\ handleFileUpload(f)) => Len(ocrCalls') = Len(ocrCalls) + 1]_vars

\* C12 (the claim as stated): once the handwriting handler has ended for an
\* image without text, or the extractor has returned null for want of text,
\* the no-text message is what the user sees in the response or error area.
C12_NoTextSurfaced ==
  (/\ build = "App"
   /\ Blank(image.text)
   /\ ocrCalls = <<>>
   /\ threw \/ (ocrReturn = OcrNull /\ ocrError = NoTextMsg))
    => (response = NoTextMsg \/ error = NoTextMsg)

\* C14 (the claim as stated): no orchestrator handler ever ends with an
\* uncaught exception.
C14_NothingEscapes == ~threw

\* C15: startListening invoked without permission requests it and starts
\* nothing before the request settles; when the request is denied, recognition
\* is not started, an idle listening state stays idle, the permission state
\* becomes denied and the permission message is set.
C15_PermissionFirst ==
  /\ [][(startListening /\ hasPermission # "true")
          => /\ starts' = starts + 1
             /\ engine' = engine
             /\ isListening' = isListening]_vars
  /\ [][PermissionSettles(FALSE)
          => /\ engine' = engine
             /\ (~isListening => ~isListening')
             /\ hasPermission' = "false"
             /\ transcript' = "Please grant microphone permission to use voice input."]_vars

\* C15 witness: a request made from the idle state with permission unknown
\* has been denied.
C15_Witness ==
  /\ hasPermission = "false"
  /\ transcript = PermissionMsg
  /\ ~isListening
  /\ engine = "off"
  /\ starts = 0
  /\ mountCheck

\* C16: on the recognition error 'not-allowed' the permission state becomes
\* denied and listening stops; on any other recognition error listening
\* stops and the permission state, the transcript, the response and the error
\* display stay as they are.
C16_RecognitionError ==
  [][\A e \in RecognitionErrors :
       onerror(e)
         => /\ ~isListening'
            /\ (e = "not-allowed" => hasPermission' = "false")
            /\ (e # "not-allowed"
                  => UNCHANGED <<hasPermission, transcript, response, error>>)]_vars

\* C16 witness: listening has been ended by an error with permission still
\* granted and a transcript in place.
C16_Witness ==
  /\ hasPermission = "true"
  /\ ~isListening
  /\ engine = "off"
  /\ transcript \in Phrases
  /\ ~mountCheck

\* C17: stopListening ends listening and keeps the transcript; resetTranscript
\* empties the transcript and keeps the listening and permission state; each
\* recognition event replaces the transcript by its own text.
C17_StopResetResult ==
  /\ [][stopListening => (~isListening' /\ transcript' = transcript)]_vars
  /\ [][resetTranscript
          => (transcript' = "" /\ UNCHANGED <<isListening, hasPermission>>)]_vars
  /\ [][\A t \in Phrases : SessionResult(t) => transcript' = t]_vars

\* C17 witness: listening was stopped and the transcript of the session is
\* still there.
C17_Witness ==
  /\ engine = "stopping"
  /\ ~isListening
  /\ transcript = "how"

\* C13 (the claim as stated): while the camera is disabled or the component
\* is torn down, no acquired stream is live, whenever its acquisition resolved.
C13_StreamReleased == (~enableCamera \/ ~hookMounted) => live = {}

\* C18 (the claim as stated): a value that is not a quiz of the schema is
\* never stored as the current quiz.
C18_StoredQuizIsValid == currentQuiz.kind \in {"null", "quiz"}

\* C19: advancing past the last question of a quiz calls onComplete, with the
\* number of its questions answered correctly, and marks the quiz completed;
\* this happens at most once for a stored quiz; and a generation starts only
\* by Start Quiz / Try Again.
C19_CompletionOnce ==
  /\ [][(handleNextQuestion /\ currentQuestionIndex = Len(currentQuiz.questions) - 1)
          => /\ completions' = completions + 1
             /\ reported' = answeredRight
             /\ quizCompleted'
             /\ conversationHistory' =
                  Append(conversationHistory,
                         [type |-> "answer",
                          text |-> "Quiz completed! Score: " \o ToString(answeredRight)])]_vars
  /\ [](completions <= 1 /\ (quizCompleted => completions = 1))
  /\ [][completions' # completions
          => (handleNextQuestion \/ \E out \in QuizOutputs : StartQuizReturns(out))]_vars
  /\ [][quizCalls' > quizCalls => (handleStartQuiz /\ Screen # "question")]_vars

\* C19 witness: a second quiz has been completed with both of its questions
\* answered correctly, after a first one was completed.
C19_Witness ==
  /\ quizCompleted
  /\ completions = 1
  /\ reported = 2
  /\ Len(conversationHistory) = 2
  /\ Screen = "completed"

\* C20 (the claim as stated): a processAIResponse call triggers speech only
\* if voice output is enabled and no utterance is being spoken at that moment.
C20_SpeaksOnlyWhenSilent ==
  lastCall.spoke => (enableVoice /\ ~lastCall.whilePlaying)

\* C21 (the claim as stated): in every reachable state of the voice hook, if
\* it is listening then the microphone permission is granted.
C21_ListeningImpliesGranted == isListening => hasPermission = "true"

\* C22: every step leaves the history as it is, appends exactly one record at
\* its end, or, in clearHistory only, replaces it by the empty sequence; the
\* records already there keep their content and their order.
C22_AppendOnly ==
  [][\/ conversationHistory' = conversationHistory
     \/ /\ Len(conversationHistory') = Len(conversationHistory) + 1
        /\ SubSeq(conversationHistory', 1, Len(conversationHistory)) = conversationHistory
     \/ /\ clearHistory
        /\ conversationHistory' = <<>>]_vars

\* C22 witness: the history was reset while a request was pending, whose
\* answer then became the first record, and another answer was appended
\* after it.
C22_Witness ==
  /\ Len(conversationHistory) = 2
  /\ conversationHistory[1].type = "answer"
  /\ conversationHistory[2].type = "answer"
  /\ conversationHistory[1] # conversationHistory[2]

\* C23: a request that answers with a text while another request is pending
\* sets the displayed response to its own answer and appends its own Answer
\* record, whichever of the two was started first: the request that settles
\* last, even one started earlier, owns the response and the last Answer.
C23_NoStalenessCheck ==
  [][\A t \in BagToSet(tasks) :
       (/\ t.h \in {"ask", "camera", "whiteboard", "notes"}
        /\ BagCardinality(tasks) > 1
        /\ ModelSettles(t, "ok"))
         => /\ response' = GenText(t.q, t.img)
            /\ conversationHistory' =
                 Append(conversationHistory, Record("answer", GenText(t.q, t.img)))]_vars

\* C23 witness: an ask was started, the history was reset, a drawing was
\* submitted while the ask was pending and answered first; the ask, started
\* earlier, answered last: the response and the last Answer are the ask's.
C23_Witness ==
  /\ tasks = EmptyBag
  /\ conversationHistory = <<Record("answer", GenText(WhiteboardPrompt, "")),
                             Record("answer", GenText("why", ""))>>
  /\ response = GenText("why", "")

\* C24 (the claim as stated, the half it singles out): while a
\* processAIResponse call is pending, at the wait for the video frame or at
\* the model call, isLoading is true.
C24_LoadingWhilePending ==
  (\E t \in BagToSet(tasks) : t.pc \in {"waitVideo", "awaitModel"}) => isLoading

\* C25 (the claim as stated): provided the services settle what was asked of
\* them, whenever isLoading is true it is eventually cleared.
C25_LoadingEnds == isLoading ~> ~isLoading

\* C26 (the claim as stated): when the model call of an ask or a camera
\* analysis settles, either an Answer record is appended and shown as the
\* response, or the response becomes the failure message of the handler.
C26_VisibleOutcome ==
  [][\A t \in BagToSet(tasks), o \in Outcomes :
       (t.h \in {"ask", "camera"} /\ ModelSettles(t, o))
         => \/ /\ Len(conversationHistory') = Len(conversationHistory) + 1
               /\ conversationHistory'[Len(conversationHistory')].type = "answer"
               /\ response' = conversationHistory'[Len(conversationHistory')].text
            \/ response' = (IF t.h = "ask" THEN FailAsk ELSE FailAnalyze)]_vars

\* C27 (the claim as stated, its conclusion): every Question record that an
\* ask appends holds a text delivered by a recognition event, never a
\* message the program wrote into the transcript.
C27_OnlyRecognizedSpeech ==
  \A k \in 1..Len(conversationHistory) :
    conversationHistory[k].type = "question" => conversationHistory[k].text \in Phrases

\* C28 (the claim as stated): while a quiz is running, with n its number of
\* questions, 0 <= score <= questions answered so far <= n and
\* 0 <= currentQuestionIndex < n.
C28_QuizBounds ==
  Screen = "question"
    => LET n == Len(currentQuiz.questions)
           answeredSoFar == currentQuestionIndex + (IF showExplanation THEN 1 ELSE 0)
       IN /\ 0 <= score
          /\ score <= answeredSoFar
          /\ answeredSoFar <= n
          /\ 0 <= currentQuestionIndex
          /\ currentQuestionIndex < n

\* C29 (the claim as stated): an ask or a camera analysis whose Question
\* record has been wiped by a reset since it started (the history is empty
\* while it is pending) leaves the history and the response empty when its
\* model call settles.
C29_ResetIsFinal ==
  [][\A t \in BagToSet(tasks), o \in Outcomes :
       (/\ t.h \in {"ask", "camera"}
        /\ conversationHistory = <<>>
        /\ response = ""
        /\ ModelSettles(t, o))
         => (conversationHistory' = <<>> /\ response' = "")]_vars

\* C30 (the claim as stated, for a different, later image): whenever Analyze
\* Notes is offered, the response is what the Response Generator said about
\* the image on display, not about an image uploaded before it.
C30_NotesForShownImage ==
  NotesEnabled
    => response \in {GenText(UploadPrompt, uploadedImage),
                     GenText(NotesPrompt, uploadedImage)}
====
